---------------------------- MODULE Spec2Model ----------------------------
(***************************************************************************)
(* State-machine model of the ContactForm React component                  *)
(* (src/src/components/ContactForm.tsx).                                   *)
(*                                                                         *)
(* Strings that the validator inspects (phone, email) are sequences of     *)
(* one-character strings, so that the two regular expressions are really   *)
(* matched.  The other strings (status, messages) are opaque.              *)
(*                                                                         *)
(* One handleSubmit invocation is split where the code awaits: the part    *)
(* up to `await emailjs.send(...)` is the action handleSubmit, and the     *)
(* continuation after the promise settles is one of sendResolved (the      *)
(* promise resolved with some response status) and sendRejected (the       *)
(* promise rejected, control enters the catch block).  The callbacks given *)
(* to setTimeout are the action timerFired.  React applies the state       *)
(* updates of one handler step together and renders before the next event, *)
(* so each step is one atomic action.                                      *)
(*                                                                         *)
(* User events reach the handlers only through the rendered controls: the  *)
(* submit button and all inputs carry disabled={status === 'sending'}.     *)
(* The browser's own constraint validation (required, type="email") is not *)
(* used as a guard: handleSubmit is exercised on a superset of the field   *)
(* states a browser would let through.                                     *)
(***************************************************************************)
EXTENDS Integers, Sequences, FiniteSets, TLC

VARIABLES
    formData,      \* useState<FormData>: field name -> value
    status,        \* useState 'idle' | 'sending' | 'success' | 'error'
    errorMessage,  \* useState('')
    pending,       \* emailjs.send calls issued and not yet settled (templateParams)
    timers,        \* pending setTimeout callbacks, in scheduling order
    nSent,         \* number of emailjs.send calls issued so far
    styleElements, \* number of elements with id 'contact-form-styles' in the document
    lastEvent      \* history: the handler step that produced this state

vars == <<formData, status, errorMessage, pending, timers, nSent, styleElements,
          lastEvent>>

-----------------------------------------------------------------------------
(* Bounds *)

\* Largest number of emailjs.send calls issued in one behaviour.
MaxSent == 3

-----------------------------------------------------------------------------
(* Characters and regular expressions *)

Digit == {"0", "1", "2", "3", "4", "5", "6", "7", "8", "9"}

\* \s of a JavaScript regular expression (the members that can be typed here).
Whitespace == {" ", "\t", "\n", "\r"}

\* A pattern item: a character class (a set, possibly negated) with a
\* repetition range lo..hi; hi = -1 stands for "unbounded".
Item(set, neg, lo, hi) == [set |-> set, neg |-> neg, lo |-> lo, hi |-> hi]

InClass(c, item) == IF item.neg THEN c \notin item.set ELSE c \in item.set

\* Does pat[k..] match s[i..] up to the end of s (the pattern is anchored
\* with ^ and $)?
RECURSIVE MatchFrom(_, _, _, _)
MatchFrom(s, i, pat, k) ==
    IF k > Len(pat) THEN i = Len(s) + 1
    ELSE LET item == pat[k]
             rest == Len(s) - i + 1
             top  == IF item.hi = -1 \/ item.hi > rest THEN rest ELSE item.hi
         IN \E n \in item.lo .. top :
               /\ \A j \in i .. (i + n - 1) : InClass(s[j], item)
               /\ MatchFrom(s, i + n, pat, k + 1)

RegexTest(pat, s) == MatchFrom(s, 1, pat, 1)

\* /^[\+]?[(]?[0-9]{3}[)]?[-\s\.]?[0-9]{3}[-\s\.]?[0-9]{4,6}$/
phoneRegex ==
    << Item({"+"}, FALSE, 0, 1),
       Item({"("}, FALSE, 0, 1),
       Item(Digit, FALSE, 3, 3),
       Item({")"}, FALSE, 0, 1),
       Item({"-", "."} \cup Whitespace, FALSE, 0, 1),
       Item(Digit, FALSE, 3, 3),
       Item({"-", "."} \cup Whitespace, FALSE, 0, 1),
       Item(Digit, FALSE, 4, 6) >>

emailRegex_NoDomainDot ==
    << Item({"@"} \cup Whitespace, TRUE, 1, -1),
       Item({"@"}, FALSE, 1, 1),
       Item({"@"} \cup Whitespace, TRUE, 1, -1) >>

\* /^[^\s@]+@[^\s@]+\.[^\s@]+$/
emailRegex ==
    << Item({"@"} \cup Whitespace, TRUE, 1, -1),
       Item({"@"}, FALSE, 1, 1),
       Item({"@"} \cup Whitespace, TRUE, 1, -1),
       Item({"."}, FALSE, 1, 1),
       Item({"@"} \cup Whitespace, TRUE, 1, -1) >>

-----------------------------------------------------------------------------
(* Values *)

FieldNames == {"firstname", "lastname", "email", "phone", "service", "message"}

Empty == << >>

Jane == <<"J", "a", "n", "e">>
Doe == <<"D", "o", "e">>
Autre == <<"A", "u", "t", "r", "e">>
Bonjour == <<"B", "o", "n", "j", "o", "u", "r">>

JaneEmail ==
    <<"j", "a", "n", "e", "@", "e", "x", "a", "m", "p", "l", "e", ".", "c", "o", "m">>
NotAnEmail ==
    <<"n", "o", "t", "-", "a", "n", "-", "e", "m", "a", "i", "l">>

\* "+212 600 000 000"
JanePhone ==
    <<"+", "2", "1", "2", " ", "6", "0", "0", " ", "0", "0", "0", " ", "0", "0", "0">>
\* "0612345678"
LocalPhone == <<"0", "6", "1", "2", "3", "4", "5", "6", "7", "8">>
\* "123"
ShortPhone == <<"1", "2", "3">>

\* The values a change event may carry, per field.
FieldValues ==
    [firstname |-> {Empty, Jane},
     lastname  |-> {Empty, Doe},
     email     |-> {Empty, JaneEmail, NotAnEmail},
     phone     |-> {Empty, LocalPhone, JanePhone, ShortPhone},
     service   |-> {Empty, Autre},
     message   |-> {Empty, Bonjour}]

\* useState<FormData>({firstname: '', ...})
initialFormData == [n \in FieldNames |-> Empty]

PhoneInvalidMessage == "Numéro de téléphone invalide"
EmailInvalidMessage == "Email invalide"
GenericErrorMessage == "Une erreur est survenue. Veuillez réessayer."

\* response.status values emailjs.send may resolve with
ResponseStatuses == {200, 202, 429}

-----------------------------------------------------------------------------
(* validateForm *)

PhoneOk(fd) == RegexTest(phoneRegex, fd["phone"])
EmailOk(fd) == RegexTest(emailRegex, fd["email"])

validateMessage_EmailFirst(fd) ==
    IF ~EmailOk(fd) THEN EmailInvalidMessage
    ELSE IF ~PhoneOk(fd) THEN PhoneInvalidMessage
    ELSE ""

\* The message validateForm leaves in errorMessage ("" when it sets none);
\* handleSubmit has cleared errorMessage just before.
validateMessage(fd) ==
    IF ~PhoneOk(fd) THEN PhoneInvalidMessage
    ELSE IF ~EmailOk(fd) THEN EmailInvalidMessage
    ELSE ""

validateForm_PhoneOnly(fd) == PhoneOk(fd)

\* validateForm's return value
validateForm(fd) == PhoneOk(fd) /\ EmailOk(fd)

-----------------------------------------------------------------------------
(* Rendered controls *)

\* disabled={status === 'sending'} on every input, select and textarea
inputsDisabled == status = "sending"

submitDisabled_Never == FALSE

\* disabled={status === 'sending'} on the submit button
submitDisabled == status = "sending"

-----------------------------------------------------------------------------
(* Handlers *)

injectStyles_NoMarkerCheck(present) == present + 1

\* The module-level statement that injects the stylesheet, run in a browser
\* (typeof window !== 'undefined') on a document that holds `present`
\* elements with id 'contact-form-styles': the number it holds afterwards.
injectStyles(present) == IF present = 0 THEN present + 1 ELSE present

\* The state once the module has been evaluated in the page and the
\* component has mounted.
Init ==
    /\ styleElements = injectStyles(0)
    /\ formData = initialFormData
    /\ status = "idle"
    /\ errorMessage = ""
    /\ pending = << >>
    /\ timers = << >>
    /\ nSent = 0
    /\ lastEvent = "mount"

handleChange_ClearsError(name, value) ==
    /\ ~inputsDisabled
    /\ formData' = [formData EXCEPT ![name] = value]
    /\ errorMessage' = ""
    /\ lastEvent' = "change"
    /\ UNCHANGED styleElements
    /\ UNCHANGED <<status, pending, timers, nSent>>

handleChange(name, value) ==
    /\ ~inputsDisabled
    /\ formData' = [formData EXCEPT ![name] = value]
    /\ lastEvent' = "change"
    /\ UNCHANGED styleElements
    /\ UNCHANGED <<status, errorMessage, pending, timers, nSent>>

templateParams_ReplyToName(fd) ==
    fd @@ ("to_email" :> "contact@evakech.com" @@ "reply_to" :> fd["firstname"])

\* templateParams: the fields, to_email and reply_to (the date is left out)
templateParams(fd) ==
    fd @@ ("to_email" :> "contact@evakech.com" @@ "reply_to" :> fd["email"])

\* handleSubmit up to the await
handleSubmit ==
    /\ ~submitDisabled
    /\ lastEvent' = "submit"
    /\ UNCHANGED styleElements
    /\ IF ~validateForm(formData)
       THEN /\ errorMessage' = validateMessage(formData)
            /\ status' = "error"
            /\ UNCHANGED <<formData, pending, timers, nSent>>
       ELSE /\ nSent < MaxSent
            /\ errorMessage' = ""
            /\ status' = "sending"
            /\ pending' = Append(pending, templateParams(formData))
            /\ nSent' = nSent + 1
            /\ UNCHANGED <<formData, timers>>

RemoveAt(seq, i) == SubSeq(seq, 1, i - 1) \o SubSeq(seq, i + 1, Len(seq))

resetFormData_KeepsEmail ==
    [n \in FieldNames |-> IF n = "email" THEN formData[n] ELSE Empty]

\* setFormData({firstname: '', ...}) after an acknowledged delivery
resetFormData == [n \in FieldNames |-> Empty]

\* The await returns a response with status st: the code after the await,
\* whose only statement is if (response.status === 200) { ... }.
sendResolved ==
    \E i \in 1 .. Len(pending) : \E st \in ResponseStatuses :
       /\ pending' = RemoveAt(pending, i)
       /\ lastEvent' = IF st = 200 THEN "resolved200" ELSE "resolvedOther"
       /\ UNCHANGED styleElements
       /\ IF st = 200
          THEN /\ status' = "success"
               /\ formData' = resetFormData
               /\ timers' = Append(timers, "success")
               /\ UNCHANGED <<errorMessage, nSent>>
          ELSE UNCHANGED <<formData, status, errorMessage, timers, nSent>>

sendRejected_ResetsForm ==
    \E i \in 1 .. Len(pending) :
       /\ pending' = RemoveAt(pending, i)
       /\ lastEvent' = "rejected"
       /\ UNCHANGED styleElements
       /\ status' = "error"
       /\ errorMessage' = GenericErrorMessage
       /\ timers' = Append(timers, "error")
       /\ formData' = resetFormData
       /\ UNCHANGED nSent

sendRejected_ToIdle ==
    \E i \in 1 .. Len(pending) :
       /\ pending' = RemoveAt(pending, i)
       /\ lastEvent' = "rejected"
       /\ UNCHANGED styleElements
       /\ status' = "idle"
       /\ errorMessage' = GenericErrorMessage
       /\ timers' = Append(timers, "error")
       /\ UNCHANGED <<formData, nSent>>

\* The await throws: the catch block.
sendRejected ==
    \E i \in 1 .. Len(pending) :
       /\ pending' = RemoveAt(pending, i)
       /\ lastEvent' = "rejected"
       /\ UNCHANGED styleElements
       /\ status' = "error"
       /\ errorMessage' = GenericErrorMessage
       /\ timers' = Append(timers, "error")
       /\ UNCHANGED <<formData, nSent>>

timerFired_KeepsMessage ==
    /\ timers # << >>
    /\ timers' = Tail(timers)
    /\ lastEvent' = IF Head(timers) = "success" THEN "successTimer" ELSE "errorTimer"
    /\ UNCHANGED styleElements
    /\ status' = "idle"
    /\ UNCHANGED <<formData, errorMessage, pending, nSent>>

\* The oldest setTimeout callback runs (both delays are 5000 ms, so the
\* callbacks run in scheduling order).  The callback scheduled after a
\* success sets status; the one scheduled in the catch block also clears
\* errorMessage.
timerFired ==
    /\ timers # << >>
    /\ timers' = Tail(timers)
    /\ lastEvent' = IF Head(timers) = "success" THEN "successTimer" ELSE "errorTimer"
    /\ UNCHANGED styleElements
    /\ status' = "idle"
    /\ errorMessage' = IF Head(timers) = "error" THEN "" ELSE errorMessage
    /\ UNCHANGED <<formData, pending, nSent>>

Next ==
    \/ \E name \in FieldNames : \E value \in FieldValues[name] : handleChange(name, value)
    \/ handleSubmit
    \/ sendResolved
    \/ sendRejected
    \/ timerFired

Spec == Init /\ [][Next]_vars

\* The module is evaluated again in the same page session (the component is
\* loaded or mounted once more).
moduleEvaluated ==
    /\ styleElements' = injectStyles(styleElements)
    /\ lastEvent' = "moduleEvaluated"
    /\ UNCHANGED <<formData, status, errorMessage, pending, timers, nSent>>

\* The page session with repeated module evaluations, while the form is
\* being filled in.
NextStyle ==
    \/ moduleEvaluated
    \/ \E name \in FieldNames : \E value \in FieldValues[name] : handleChange(name, value)
    \/ handleSubmit

SpecStyle == Init /\ [][NextStyle]_vars

-----------------------------------------------------------------------------
(* The validator on its own: the form holds some typed phone and email, and *)
(* the user submits.                                                        *)

\* Longest email typed in SpecValidator.
MaxEmailLen == 5

Rep(c, n) == [i \in 1 .. n |-> c]

RECURSIVE SeqsUpTo(_, _)
SeqsUpTo(alphabet, n) ==
    IF n = 0 THEN {<< >>}
    ELSE LET shorter == SeqsUpTo(alphabet, n - 1)
         IN shorter \cup {Append(s, c) : s \in {x \in shorter : Len(x) = n - 1},
                                         c \in alphabet}

\* Typed emails: every string of at most MaxEmailLen characters over a
\* letter, '@', '.' and a space.
EmailInputs == SeqsUpTo({"a", "@", ".", " "}, MaxEmailLen)

\* Typed phones: a prefix, an optional '(', a run of digits, an optional ')',
\* something between the groups, a run of digits, something between the
\* groups, a run of digits; the runs are around the lengths the pattern asks
\* for.
BetweenGroups == {<< >>, <<" ">>, <<".">>, <<"-">>, <<" ", " ">>, <<"x">>}

PhoneInputs ==
    { pre \o lp \o Rep(d, a) \o rp \o s1 \o Rep(d, b) \o s2 \o Rep(d, c) :
        pre \in {<< >>, <<"+">>, <<"+", "+">>},
        lp \in {<< >>, <<"(">>}, rp \in {<< >>, <<")">>},
        s1 \in BetweenGroups, s2 \in BetweenGroups,
        a \in 2 .. 4, b \in 2 .. 4, c \in 3 .. 7,
        d \in {"0", "9"} }

InitValidator ==
    /\ \/ \E p \in PhoneInputs :
             formData = [initialFormData EXCEPT !["phone"] = p, !["email"] = JaneEmail]
       \/ \E e \in EmailInputs :
             formData = [initialFormData EXCEPT !["phone"] = LocalPhone, !["email"] = e]
    /\ styleElements = injectStyles(0)
    /\ status = "idle"
    /\ errorMessage = ""
    /\ pending = << >>
    /\ timers = << >>
    /\ nSent = 0
    /\ lastEvent = "change"

NextValidator == handleSubmit

SpecValidator == InitValidator /\ [][NextValidator]_vars

-----------------------------------------------------------------------------
(* Properties.  A step is recognised by the value it gives lastEvent:      *)
(* "change", "submit", "resolved200", "resolvedOther", "rejected",         *)
(* "successTimer", "errorTimer".                                           *)

BothOk(fd) == PhoneOk(fd) /\ EmailOk(fd)

\* C1: with fields passing both checks, a submit made while status is not
\* 'sending' issues exactly one delivery call; no submit is accepted and no
\* call is issued while status is 'sending'; no other step issues a call
\* (no retry).
C1_OneCallPerSubmit ==
    [][ /\ (lastEvent' = "submit" /\ BothOk(formData)) =>
              /\ status # "sending"
              /\ nSent' = nSent + 1
              /\ pending' = Append(pending, templateParams(formData))
        /\ status = "sending" => (lastEvent' # "submit" /\ nSent' = nSent)
        /\ lastEvent' # "submit" => (nSent' = nSent /\ Len(pending') <= Len(pending))
      ]_vars

\* A second delivery call has just been issued by a second submit, after the
\* first call was settled.
C1_Witness ==
    /\ lastEvent = "submit"
    /\ status = "sending"
    /\ nSent = 2
    /\ Len(pending) = 1

\* C2: a submit with a phone value failing the phone pattern, whatever the
\* email value, leaves status 'error' with the phone message and issues no
\* delivery call.
C2_PhoneInvalid ==
    [][ (lastEvent' = "submit" /\ ~PhoneOk(formData)) =>
              /\ status' = "error"
              /\ errorMessage' = PhoneInvalidMessage
              /\ nSent' = nSent
              /\ pending' = pending
      ]_vars

\* Phone and email both invalid (and not empty): the phone message is shown.
C2_Witness ==
    /\ lastEvent = "submit"
    /\ formData["phone"] = ShortPhone
    /\ formData["email"] = NotAnEmail
    /\ status = "error"
    /\ errorMessage = PhoneInvalidMessage

\* C3: a submit with a phone value passing the phone pattern and an email
\* value failing the email pattern leaves status 'error' with the email
\* message and issues no delivery call.
C3_EmailInvalid ==
    [][ (lastEvent' = "submit" /\ PhoneOk(formData) /\ ~EmailOk(formData)) =>
              /\ status' = "error"
              /\ errorMessage' = EmailInvalidMessage
              /\ nSent' = nSent
              /\ pending' = pending
      ]_vars

C3_Witness ==
    /\ lastEvent = "submit"
    /\ formData["phone"] = LocalPhone
    /\ formData["email"] = NotAnEmail
    /\ status = "error"
    /\ errorMessage = EmailInvalidMessage
    /\ nSent = 0

\* C4: an acknowledged delivery (status 200) resets all six fields to the
\* empty string, sets status 'success' and schedules the success timer; when
\* a success timer fires, status becomes 'idle'.
C4_AckResetsAndReturns ==
    [][ /\ lastEvent' = "resolved200" =>
              /\ \A n \in FieldNames : formData'[n] = Empty
              /\ status' = "success"
              /\ timers' = Append(timers, "success")
        /\ lastEvent' = "successTimer" =>
              /\ Head(timers) = "success"
              /\ status' = "idle"
      ]_vars

\* One delivery was acknowledged and its timer has fired, with no other
\* submit.
C4_Witness ==
    /\ lastEvent = "successTimer"
    /\ status = "idle"
    /\ \A n \in FieldNames : formData[n] = Empty
    /\ nSent = 1
    /\ pending = << >>
    /\ timers = << >>

\* C5: a rejected delivery leaves the fields as they were, sets status
\* 'error' with the generic message and schedules the error timer; when an
\* error timer fires, status becomes 'idle' and the message is cleared.
C5_RejectKeepsFields ==
    [][ /\ lastEvent' = "rejected" =>
              /\ formData' = formData
              /\ status' = "error"
              /\ errorMessage' = GenericErrorMessage
              /\ timers' = Append(timers, "error")
        /\ lastEvent' = "errorTimer" =>
              /\ Head(timers) = "error"
              /\ status' = "idle"
              /\ errorMessage' = ""
      ]_vars

\* One delivery was rejected and its timer has fired, with no other submit:
\* the fields still hold the submitted values.
C5_Witness ==
    /\ lastEvent = "errorTimer"
    /\ status = "idle"
    /\ errorMessage = ""
    /\ BothOk(formData)
    /\ nSent = 1
    /\ pending = << >>
    /\ timers = << >>

\* C6: right after a delivery call settles with a response status other than
\* 200, status is 'error' with the generic message (the call is treated as a
\* failure and the component does not remain in 'sending').
C6_Non200IsFailure ==
    lastEvent = "resolvedOther" =>
        /\ status = "error"
        /\ errorMessage = GenericErrorMessage
        /\ timers # << >>

\* C7: right after a submit that fails validation, an automatic return to
\* 'idle' is scheduled.
C7_ValidationFailureSchedulesReturn ==
    (lastEvent = "submit" /\ status = "error") => timers # << >>

\* The field state of the scenario
JaneForm ==
    [firstname |-> Jane, lastname |-> Doe, email |-> JaneEmail,
     phone |-> JanePhone, service |-> Autre, message |-> Empty]

\* C8: right after a submit with the fields of the scenario, validation has
\* passed and one delivery call with reply_to = "jane@example.com" has been
\* issued.
C8_JaneScenario ==
    (lastEvent = "submit" /\ formData = JaneForm) =>
        /\ status = "sending"
        /\ nSent >= 1
        /\ pending # << >>
        /\ pending[Len(pending)]["reply_to"] = JaneEmail

ListedTransitions ==
    { <<"idle", "sending">>, <<"sending", "success">>, <<"sending", "error">>,
      <<"success", "idle">>, <<"error", "idle">> }

\* C9 as stated: every change of status is one of idle->sending,
\* sending->success, sending->error, success->idle, error->idle.
C9_OnlyListedTransitions ==
    [][ status' # status => <<status, status'>> \in ListedTransitions ]_vars

\* C9 as amended: status changes to 'sending' only by a submit passing
\* validation and to 'error' only by a submit failing validation (both made
\* while status is not 'sending') or by a rejected delivery, to 'success'
\* only by an acknowledged delivery, and to 'idle' only by a timer firing.
C9_StatusChangesByCause ==
    [][ status' # status =>
          \/ /\ status' = "sending"
             /\ lastEvent' = "submit" /\ status # "sending" /\ BothOk(formData)
          \/ /\ status' = "error"
             /\ \/ lastEvent' = "submit" /\ status # "sending" /\ ~BothOk(formData)
                \/ lastEvent' = "rejected"
          \/ /\ status' = "success"
             /\ lastEvent' = "resolved200"
          \/ /\ status' = "idle"
             /\ lastEvent' \in {"successTimer", "errorTimer"}
      ]_vars

\* A timer of an earlier submission has taken status from 'sending' to
\* 'idle' while a later delivery call is outstanding.
C9_Witness ==
    /\ lastEvent = "successTimer"
    /\ status = "idle"
    /\ pending # << >>

\* C10: the fields change only by a field update or by an acknowledged
\* delivery: every submit, every rejected or non-200 delivery and every
\* timer leaves all six field values unchanged.
C10_FieldsResetOnlyByAck ==
    [][ /\ lastEvent' \in {"submit", "rejected", "resolvedOther",
                           "successTimer", "errorTimer"} => formData' = formData
        /\ formData' # formData => lastEvent' \in {"change", "resolved200"}
      ]_vars

\* A delivery has just been rejected and the submitted values are still in
\* the fields.
C10_Witness ==
    /\ lastEvent = "rejected"
    /\ status = "error"
    /\ formData # initialFormData
    /\ BothOk(formData)

\* C11: a field update changes formData to formData with one field n set to
\* a value v the update may carry, and leaves status and errorMessage as
\* they were, whatever v is (no validation runs).
C11_ChangeSetsOneField ==
    [][ lastEvent' = "change" =>
          /\ \E n \in FieldNames : \E v \in FieldValues[n] :
                /\ formData'[n] = v
                /\ \A m \in FieldNames \ {n} : formData'[m] = formData[m]
          /\ status' = status
          /\ errorMessage' = errorMessage
      ]_vars

\* After a failed validation the phone has just been changed to another
\* value the validator rejects: the update was accepted, and the status and
\* the message of the failed submit are still there.
C11_Witness ==
    /\ lastEvent = "change"
    /\ formData["phone"] = JanePhone
    /\ formData["email"] = NotAnEmail
    /\ status = "error"
    /\ errorMessage = EmailInvalidMessage

\* C12: the call a submit issues carries the six field values the form has
\* at that submit and a reply_to equal to the submitted email; an
\* outstanding call's payload does not change afterwards.
C12_PayloadIsSubmittedFields ==
    [][ /\ nSent' # nSent =>
              /\ lastEvent' = "submit"
              /\ Len(pending') = Len(pending) + 1
              /\ \A n \in FieldNames : pending'[Len(pending')][n] = formData[n]
              /\ pending'[Len(pending')]["reply_to"] = formData["email"]
        /\ \A i \in 1 .. Len(pending') :
              /\ pending'[i]["reply_to"] = pending'[i]["email"]
              /\ i <= Len(pending) =>
                    (pending'[i] = pending[i] \/ pending'[i] = pending[i + 1])
      ]_vars

\* Two calls are outstanding, issued by submits with different fields.
C12_Witness ==
    /\ Len(pending) = 2
    /\ pending[1]["firstname"] # pending[2]["firstname"]
    /\ pending[2]["reply_to"] = JaneEmail
    /\ lastEvent = "submit"

\* C13: after any number (at least one) of evaluations of the module in a
\* page session, the document holds exactly one element with id
\* 'contact-form-styles'.
C13_OneStyleElement == styleElements = 1

\* The module has just been evaluated again, after the form was edited.
C13_Witness ==
    /\ lastEvent = "moduleEvaluated"
    /\ formData # initialFormData
    /\ styleElements = 1

TimerEvents == {"successTimer", "errorTimer"}

\* C14: a timer scheduled by an earlier submission never changes the status
\* or the message a later submit has established.  While the last handler
\* step was a submit, or status is 'sending' (which only a submit sets),
\* every pending timer was scheduled before that submit; its firing leaves
\* status and errorMessage as they are.
C14_StaleTimerSuperseded ==
    [][ (lastEvent' \in TimerEvents /\ (lastEvent = "submit" \/ status = "sending")) =>
              /\ status' = status
              /\ errorMessage' = errorMessage
      ]_vars

\* C15: whenever a delivery call is outstanding status is 'sending', and at
\* most one delivery call is outstanding.
C15_OutstandingImpliesSending ==
    /\ pending # << >> => status = "sending"
    /\ Len(pending) <= 1

\* C16: at most one auto-return timer is pending.
C16_AtMostOneTimer == Len(timers) <= 1

\* C17: the error message is non-empty only while status is 'error'; in
\* particular it is empty whenever status is 'idle'.
C17_MessageOnlyInError == errorMessage # "" => status = "error"

\* C20: when an acknowledged delivery resets the fields, the fields hold at
\* that moment the values sent in that delivery's payload.
C20_ResetDiscardsNothing ==
    [][ lastEvent' = "resolved200" =>
          \E i \in 1 .. Len(pending) :
              /\ pending' = RemoveAt(pending, i)
              /\ \A n \in FieldNames : pending[i][n] = formData[n]
      ]_vars

\* The description of the phone values: an optional leading '+', a first
\* group of 3 digits optionally enclosed in a matched pair of parentheses, a
\* second group of 3 digits and a final group of 4 to 6 digits, with at most
\* one separator (space, dot or hyphen) between groups.
DescribedSeparators == {" ", ".", "-"}

DescribedPhone(s) ==
    \E plus \in 0 .. 1, par \in 0 .. 1, s1 \in 0 .. 1, s2 \in 0 .. 1, n \in 4 .. 6 :
        LET o1 == plus + par          \* characters before the first group
            e1 == o1 + 3 + par        \* end of the first group, ')' included
            o2 == e1 + s1             \* characters before the second group
            o3 == o2 + 3 + s2         \* characters before the final group
        IN /\ Len(s) = o3 + n
           /\ plus = 1 => s[1] = "+"
           /\ par = 1 => (s[plus + 1] = "(" /\ s[e1] = ")")
           /\ \A i \in (o1 + 1) .. (o1 + 3) : s[i] \in Digit
           /\ s1 = 1 => s[e1 + 1] \in DescribedSeparators
           /\ \A i \in (o2 + 1) .. (o2 + 3) : s[i] \in Digit
           /\ s2 = 1 => s[o2 + 4] \in DescribedSeparators
           /\ \A i \in (o3 + 1) .. (o3 + n) : s[i] \in Digit

\* C18: the phone check accepts a value if and only if it has the described
\* shape (in particular any parentheses are a matched pair around the first
\* group).
C18_PhoneShape ==
    (lastEvent = "submit" /\ EmailOk(formData)) =>
        (errorMessage # PhoneInvalidMessage <=> DescribedPhone(formData["phone"]))

Count(s, c) == Cardinality({i \in 1 .. Len(s) : s[i] = c})

\* No whitespace, exactly one '@' with something before it, and a '.'
\* somewhere after the '@'.
EmailShape(s) ==
    /\ \A i \in 1 .. Len(s) : s[i] \notin Whitespace
    /\ Count(s, "@") = 1
    /\ \E i \in 2 .. Len(s) :
          /\ s[i] = "@"
          /\ \E j \in (i + 1) .. Len(s) : s[j] = "."

\* C19: a submit with an accepted phone sends only if the email has no
\* whitespace, exactly one '@' with a non-empty local part and a '.' after
\* the '@'; an email violating one of these is rejected with 'Email
\* invalide'.
C19_EmailShape ==
    (lastEvent = "submit" /\ PhoneOk(formData)) =>
        /\ status = "sending" => EmailShape(formData["email"])
        /\ ~EmailShape(formData["email"]) =>
              (status = "error" /\ errorMessage = EmailInvalidMessage)

\* "a@a.a" has been submitted and accepted.
C19_Witness ==
    /\ lastEvent = "submit"
    /\ formData["email"] = <<"a", "@", "a", ".", "a">>
    /\ status = "sending"
    /\ nSent = 1

=============================================================================
